---------------------------- MODULE Spec2Model ----------------------------
(***************************************************************************)
(* Student Performance Analysis System (student_performance_analysis.py). *)
(*                                                                         *)
(* The program loads three positionally aligned arrays (student_ids,      *)
(* sections, grades: N rows of 10 scores), runs seven analyses over them  *)
(* and renders a report.  The analyses are pure functions of the dataset; *)
(* they are modelled as operators and applied by actions.  main() is      *)
(* modelled as a sequential process with a program counter.               *)
(*                                                                         *)
(* Conventions                                                             *)
(*  - A row of grades is a sequence of NumCols integers.  Column c of the *)
(*    source (0-based) is position c+1 here; indices the program returns  *)
(*    (weakest_subject_idx) are kept 0-based.                             *)
(*  - A real number the program computes by a division is a record        *)
(*    [num, den] standing for num/den; den = 0 is numpy's nan.            *)
(*  - A student's 10-column mean is kept as the row sum, i.e. in tenths:  *)
(*    fl(s/10) is monotone in the integer s and exact at integers, so all *)
(*    comparisons the program makes on it agree with those on s.          *)
(*  - The semester means and their difference are IEEE-754 doubles, kept  *)
(*    as [n, e] standing for (n + e * 2^-55) / 5 (see fl_div5, fl_sub).   *)
(*  - A cell genfromtxt could not convert is nan; among the integer       *)
(*    scores (all >= 0) it is the value NanCell, and a row mean that is   *)
(*    nan is NanCell as well.                                             *)
(***************************************************************************)
EXTENDS Integers, Sequences, FiniteSets, TLC

(* ------------------------------ bounds -------------------------------- *)

\* largest number of students in the ranking datasets
MaxRankStudents == 4

\* largest number of students in the other datasets
MaxStudents == 2

\* largest top_n passed to rank_students
MaxTopN == 5

(* ------------------------- program constants -------------------------- *)

NumCols == 10

SemCols == 5

DefaultTopN == 10

DefaultRiskThreshold == 50

DefaultImproveThreshold == 10

ReportRows == 10

SUBJECTS == <<"Math", "Physics", "Chemistry", "English", "Computer Science">>

(* ------------------------------ helpers ------------------------------- *)

Min2(a, b) == IF a <= b THEN a ELSE b

Max2(a, b) == IF a >= b THEN a ELSE b

Abs(a) == IF a < 0 THEN -a ELSE a

RECURSIVE Pow2(_)
Pow2(k) == IF k = 0 THEN 1 ELSE 2 * Pow2(k - 1)

RECURSIVE SumSeq(_)
SumSeq(s) == IF s = <<>> THEN 0 ELSE Head(s) + SumSeq(Tail(s))

RECURSIVE SumSq(_)
SumSq(s) == IF s = <<>> THEN 0 ELSE Head(s) * Head(s) + SumSq(Tail(s))

RECURSIVE ConcatAll(_)
ConcatAll(rows) == IF rows = <<>> THEN <<>> ELSE Head(rows) \o ConcatAll(Tail(rows))

\* positions of s (ascending) at which the boolean mask holds
RECURSIVE MaskIdx(_, _)
MaskIdx(mask, i) ==
    IF i > Len(mask) THEN <<>>
    ELSE (IF mask[i] THEN <<i>> ELSE <<>>) \o MaskIdx(mask, i + 1)

\* arr[mask] / arr[indices]: numpy's selection by a boolean mask or an index array
Take(arr, idx) == [k \in 1..Len(idx) |-> arr[idx[k]]]

BoolIndex(arr, mask) == Take(arr, MaskIdx(mask, 1))

\* np.sum(mask)
CountTrue(mask) == Len(MaskIdx(mask, 1))

\* Python's normalisation of a slice bound against a length
PyBound(i, n) == IF i < 0 THEN Max2(i + n, 0) ELSE Min2(i, n)

\* s[lo:hi] with Python semantics (0-based, hi exclusive, negative from the end)
PySlice(s, lo, hi) == SubSeq(s, PyBound(lo, Len(s)) + 1, PyBound(hi, Len(s)))

\* s[:k]
SliceTo(s, k) == PySlice(s, 0, k)

\* s[-k:]  (the start bound is the integer -k; for k = 0 that is 0)
SliceFromNeg(s, k) == PySlice(s, 0 - k, Len(s))

\* s[::-1]
Reverse(s) == [k \in 1..Len(s) |-> s[Len(s) + 1 - k]]

(* numbers: num/den, and nan as 0/0 *)

\* the nan genfromtxt stores for an empty or non-numeric cell
NanCell == 0 - 1

\* some element of s is nan
HasNan(s) == \E k \in 1..Len(s) : s[k] = NanCell

NaN == [num |-> 0, den |-> 0]

IsNaN(x) == x.den = 0

Rat(n, d) == [num |-> n, den |-> d]

\* x - y on floats, nan propagating
RatSub(x, y) ==
    IF IsNaN(x) \/ IsNaN(y) THEN NaN
    ELSE Rat(x.num * y.den - y.num * x.den, x.den * y.den)

RatEq(x, y) == ~IsNaN(x) /\ ~IsNaN(y) /\ x.num * y.den = y.num * x.den

\* np.mean of a flat sequence of scores: nan (with a warning) when empty, and
\* nan when an element is nan
NpMean(s) == IF Len(s) = 0 \/ HasNan(s) THEN NaN ELSE Rat(SumSeq(s), Len(s))

\* np.std squared (population variance): nan when empty or when an element is nan
NpVar(s) ==
    IF Len(s) = 0 \/ HasNan(s) THEN NaN
    ELSE Rat(Len(s) * SumSq(s) - SumSeq(s) * SumSeq(s), Len(s) * Len(s))

\* np.median: mean of the two middle values of the sorted data; nan when empty
\* or when an element is nan
NpMedian(s) ==
    LET n == Len(s)
        t == SortSeq(s, LAMBDA a, b : a < b)
    IN  IF n = 0 \/ HasNan(s) THEN NaN
        ELSE IF n % 2 = 1 THEN Rat(t[(n + 1) \div 2], 1)
        ELSE Rat(t[n \div 2] + t[n \div 2 + 1], 2)

ValueError == [raised |-> "ValueError"]

IsRaised(r) == "raised" \in DOMAIN r

\* np.max / np.min: a zero-size array has no identity and raises ValueError;
\* nan propagates
NpMax(s) ==
    IF Len(s) = 0 THEN ValueError
    ELSE IF HasNan(s) THEN NaN
    ELSE Rat(CHOOSE m \in {s[k] : k \in 1..Len(s)} : \A k \in 1..Len(s) : s[k] <= m, 1)

NpMin(s) ==
    IF Len(s) = 0 THEN ValueError
    ELSE IF HasNan(s) THEN NaN
    ELSE Rat(CHOOSE m \in {s[k] : k \in 1..Len(s)} : \A k \in 1..Len(s) : m <= s[k], 1)

\* np.argmax in place of np.argmin
ArgMax(r) == (CHOOSE k \in 1..Len(r) : \A j \in 1..Len(r) : r[j] <= r[k]) - 1

\* smallest element of a non-empty row (nan when the row holds one), and np.argmin
\* (first position of it, 0-based)
RowMin(r) ==
    IF HasNan(r) THEN NanCell
    ELSE CHOOSE m \in {r[k] : k \in 1..Len(r)} : \A k \in 1..Len(r) : m <= r[k]

ArgMin(r) == (CHOOSE k \in 1..Len(r) : r[k] = RowMin(r) /\ \A j \in 1..(k - 1) : r[j] # RowMin(r)) - 1


(* ---------------- IEEE-754 doubles of the semester means -------------- *)
(* A double x produced below is the record [n, e] with x = (n + e*2^-55)/5, *)
(* n the exact numerator in fifths and e the accumulated rounding error.   *)
(* Scores are integers below 2^10, so every e is a small integer.          *)

\* 2^k mod 5
Pow2Mod5(k) == <<1, 2, 4, 3>>[(k % 4) + 1]

\* t with 2^(t-3) <= m/40 < 2^(t-2): the binade of the value m/40 (m = 8 * fifths);
\* tieUp tells on which side of a power of two the rounding error leaves the value
Binade(m, tieUp) ==
    LET Fits(t) == 5 * Pow2(t) < m \/ (5 * Pow2(t) = m /\ tieUp)
    IN  CHOOSE t \in 0..16 : Fits(t) /\ ~Fits(t + 1)

\* the inverse of 5 modulo the power of two g
Inv5(g) == IF g = 1 THEN 0 ELSE (1 + g * (CHOOSE c \in 1..4 : (1 + c * g) % 5 = 0)) \div 5

\* fl(s / 5) for an integer sum s >= 0: round to nearest (5 is odd: never a tie)
fl_div5(s) ==
    IF s = 0 THEN [n |-> 0, e |-> 0]
    ELSE LET t   == Binade(8 * s, TRUE)
             rem == ((s % 5) * Pow2Mod5(55 - t)) % 5
             d   == IF rem = 0 THEN 0 ELSE IF rem <= 2 THEN 0 - rem ELSE 5 - rem
         IN  [n |-> s, e |-> d * Pow2(t)]

\* round the exact value (D + E*2^-55)/5 to the nearest double, ties to even
fl_round(D, E) ==
    IF D = 0 THEN [n |-> 0, e |-> E]
    ELSE LET sg == IF D > 0 THEN 1 ELSE 0 - 1
             Em == sg * E
             g  == Pow2(Binade(8 * Abs(D), Em >= 0))
             r  == (Em * Inv5(g)) % g
             r2 == (Em * Inv5(2 * g)) % (2 * g)
             up == 2 * r > g \/ (2 * r = g /\ ((r2 - r) \div g) % 2 = 1)
             Er == IF r = 0 THEN Em ELSE IF up THEN Em + 5 * (g - r) ELSE Em - 5 * r
         IN  [n |-> D, e |-> sg * Er]

\* the double nan
FlNaN == [n |-> 0, e |-> 0, nan |-> TRUE]

IsFlNaN(x) == "nan" \in DOMAIN x

\* fl(x - y), nan propagating
fl_sub(x, y) == IF IsFlNaN(x) \/ IsFlNaN(y) THEN FlNaN ELSE fl_round(x.n - y.n, x.e - y.e)

\* x > t and x < t for a double x and an integer t (both false of nan)
FlGt(x, t) == ~IsFlNaN(x) /\ (x.n > 5 * t \/ (x.n = 5 * t /\ x.e > 0))

FlLt(x, t) == ~IsFlNaN(x) /\ (x.n < 5 * t \/ (x.n = 5 * t /\ x.e < 0))

(* --------------------------- the analyses ----------------------------- *)

\* grades.flatten()
Flatten(grades) == ConcatAll(grades)

\* grades[:, lo:hi] of one row
RowCols(row, lo, hi) == PySlice(row, lo, hi)

\* column c (1-based) of the matrix
Column(grades, c) == [i \in 1..Len(grades) |-> grades[i][c]]

\* np.mean(grades, axis=1) in tenths: the row sums, nan for a row holding a nan
RowMeans10(grades) ==
    [i \in 1..Len(grades) |-> IF HasNan(grades[i]) THEN NanCell ELSE SumSeq(grades[i])]

\* np.mean(half, axis=0): one mean per column lo+1..hi, nan for zero rows
ColMeans(grades, lo, hi) == [k \in 1..(hi - lo) |-> NpMean(Column(grades, lo + k))]

\* np.mean of a vector of column means (all over the same number of rows)
MeanOfMeans(ms) ==
    IF \E k \in 1..Len(ms) : IsNaN(ms[k]) THEN NaN
    ELSE Rat(SumSeq([k \in 1..Len(ms) |-> ms[k].num]), ms[1].den * Len(ms))

\* StatisticsCalculator.calculate_overall_stats
calculate_overall_stats(grades) ==
    LET all == Flatten(grades)
        mx  == NpMax(all)
        mn  == NpMin(all)
    IN  IF IsRaised(mx) THEN mx
        ELSE IF IsRaised(mn) THEN mn
        ELSE [overall_avg    |-> NpMean(all),
              overall_std    |-> NpVar(all),
              overall_median |-> NpMedian(all),
              max            |-> mx,
              min            |-> mn]

\* StatisticsCalculator.calculate_semester_stats
calculate_semester_stats(grades) ==
    LET sem1_avg == ColMeans(grades, 0, SemCols)
        sem2_avg == ColMeans(grades, SemCols, NumCols)
    IN  [sem1_avg     |-> sem1_avg,
         sem2_avg     |-> sem2_avg,
         improvement  |-> [k \in 1..SemCols |-> RatSub(sem2_avg[k], sem1_avg[k])],
         sem1_overall |-> MeanOfMeans(sem1_avg),
         sem2_overall |-> MeanOfMeans(sem2_avg)]

IndexError == [raised |-> "IndexError"]

\* calculate_semester_stats on an array of ndim dimensions: grades[:, :5] raises
\* IndexError on a vector
semester_stats_of(grades, ndim) ==
    IF ndim < 2 THEN IndexError ELSE calculate_semester_stats(grades)

Letters == {"A", "B", "C", "D", "F"}

\* the mask of grade_ranges for one letter (every comparison with nan is false)
InRange(letter, g) ==
    /\ g # NanCell
    /\ CASE letter = "A" -> g >= 90
         [] letter = "B" -> g >= 80 /\ g < 90
         [] letter = "C" -> g >= 70 /\ g < 80
         [] letter = "D" -> g >= 60 /\ g < 70
         [] letter = "F" -> g < 60

\* (count / total) * 100; count is a numpy integer, so 0 / 0 is nan, not an exception
Percentage(count, total) == IF total = 0 THEN NaN ELSE Rat(count * 100, total)

\* StatisticsCalculator.get_grade_distribution
get_grade_distribution(grades) ==
    LET all_grades == Flatten(grades)
        total      == Len(all_grades)
        Count(l)   == CountTrue([k \in 1..total |-> InRange(l, all_grades[k])])
    IN  [l \in Letters |-> [count |-> Count(l), percentage |-> Percentage(Count(l), total)]]

\* all bijections of 1..n, as sequences
Orderings(n) == {p \in [1..n -> 1..n] : \A i, j \in 1..n : i # j => p[i] # p[j]}

\* the order np.argsort sorts by: ascending, nan last
SortsBefore(x, y) == y = NanCell \/ (x # NanCell /\ x <= y)

\* np.argsort(a): a permutation putting a in ascending order.  The default kind
\* is not stable, so the order among equal keys is any order.
Argsort(a) ==
    {p \in Orderings(Len(a)) : \A i, j \in 1..Len(a) : i < j => SortsBefore(a[p[i]], a[p[j]])}

\* np.argsort(student_averages)[::-1]
RankedIndices(student_averages) == {Reverse(p) : p \in Argsort(student_averages)}

\* StudentAnalyzer.rank_students, for one outcome ranked_indices of the sort
rank_students(student_ids, grades, top_n, ranked_indices) ==
    LET student_averages == RowMeans10(grades)
        top_indices      == SliceTo(ranked_indices, top_n)
        bottom_indices   == SliceFromNeg(ranked_indices, top_n)
    IN  [averages        |-> student_averages,
         top_students    |-> [ids    |-> Take(student_ids, top_indices),
                              scores |-> Take(student_averages, top_indices)],
         bottom_students |-> [ids    |-> Take(student_ids, bottom_indices),
                              scores |-> Take(student_averages, bottom_indices)]]

\* student_averages <= threshold
AtRiskMaskInclusive(student_averages, threshold) ==
    [i \in 1..Len(student_averages) |->
        student_averages[i] # NanCell /\ student_averages[i] <= NumCols * threshold]

\* student_averages < threshold (false of a nan mean)
AtRiskMask(student_averages, threshold) ==
    [i \in 1..Len(student_averages) |->
        student_averages[i] # NanCell /\ student_averages[i] < NumCols * threshold]

\* a fallback that is not empty
FallbackZeros == <<0>>

\* np.array([]): the fallback of identify_at_risk when no grade is selected
EmptyArray == <<>>

\* StudentAnalyzer.identify_at_risk
identify_at_risk(student_ids, grades, threshold) ==
    LET student_averages == RowMeans10(grades)
        at_risk_mask     == AtRiskMask(student_averages, threshold)
        at_risk_grades   == BoolIndex(grades, at_risk_mask)
        size             == Len(at_risk_grades) * NumCols
    IN  [count               |-> CountTrue(at_risk_mask),
         ids                 |-> BoolIndex(student_ids, at_risk_mask),
         averages            |-> BoolIndex(student_averages, at_risk_mask),
         weakest_subject_idx |-> IF size > 0
                                 THEN [k \in 1..Len(at_risk_grades) |-> ArgMin(at_risk_grades[k])]
                                 ELSE EmptyArray,
         weakest_scores      |-> IF size > 0
                                 THEN [k \in 1..Len(at_risk_grades) |-> RowMin(at_risk_grades[k])]
                                 ELSE EmptyArray]

\* np.mean(grades[:, lo:hi], axis=1): one double per student
SemesterMeans(grades, lo, hi) ==
    [i \in 1..Len(grades) |->
        IF HasNan(RowCols(grades[i], lo, hi)) THEN FlNaN
        ELSE fl_div5(SumSeq(RowCols(grades[i], lo, hi)))]

\* improvement_delta >= threshold
ImprovedMaskInclusive(improvement_delta, threshold) ==
    [i \in 1..Len(improvement_delta) |->
        ~IsFlNaN(improvement_delta[i]) /\ ~FlLt(improvement_delta[i], threshold)]

\* improvement_delta > threshold
ImprovedMask(improvement_delta, threshold) ==
    [i \in 1..Len(improvement_delta) |-> FlGt(improvement_delta[i], threshold)]

\* improvement_delta < -threshold
DeclinedMask(improvement_delta, threshold) ==
    [i \in 1..Len(improvement_delta) |-> FlLt(improvement_delta[i], 0 - threshold)]

\* StudentAnalyzer.track_improvement
track_improvement(student_ids, grades, threshold) ==
    LET sem1_avg          == SemesterMeans(grades, 0, SemCols)
        sem2_avg          == SemesterMeans(grades, SemCols, NumCols)
        improvement_delta == [i \in 1..Len(grades) |-> fl_sub(sem2_avg[i], sem1_avg[i])]
        improved_mask     == ImprovedMask(improvement_delta, threshold)
        declined_mask     == DeclinedMask(improvement_delta, threshold)
    IN  [improved   |-> [count |-> CountTrue(improved_mask),
                         ids   |-> BoolIndex(student_ids, improved_mask),
                         delta |-> BoolIndex(improvement_delta, improved_mask)],
         declined   |-> [count |-> CountTrue(declined_mask),
                         ids   |-> BoolIndex(student_ids, declined_mask),
                         delta |-> BoolIndex(improvement_delta, declined_mask)],
         all_deltas |-> improvement_delta]

\* np.unique(sections), as a set
UniqueSections(sections) == {sections[i] : i \in 1..Len(sections)}

\* sections == section
SectionMask(sections, section) == [i \in 1..Len(sections) |-> sections[i] = section]

\* the statistics of one section, with count the number of grades
SectionStatsCountingGrades(sections, grades, section) ==
    LET section_mask   == SectionMask(sections, section)
        section_grades == Flatten(BoolIndex(grades, section_mask))
    IN  [count  |-> Len(section_grades),
         avg    |-> NpMean(section_grades),
         std    |-> NpVar(section_grades),
         median |-> NpMedian(section_grades),
         min    |-> NpMin(section_grades),
         max    |-> NpMax(section_grades)]

\* the statistics of one section
SectionStats(sections, grades, section) ==
    LET section_mask   == SectionMask(sections, section)
        section_grades == Flatten(BoolIndex(grades, section_mask))
    IN  [count  |-> CountTrue(section_mask),
         avg    |-> NpMean(section_grades),
         std    |-> NpVar(section_grades),
         median |-> NpMedian(section_grades),
         min    |-> NpMin(section_grades),
         max    |-> NpMax(section_grades)]

\* StudentAnalyzer.analyze_sections
analyze_sections(sections, grades) ==
    [section \in UniqueSections(sections) |-> SectionStats(sections, grades, section)]

(* ------------------------------ report -------------------------------- *)

\* ReportGenerator.generate_console_report: the values each block of lines shows
\* (number formatting is not modelled; a row is the tuple of values it prints)
generate_console_report(all_stats) ==
    LET semester == all_stats.semester
        at_risk  == all_stats.at_risk
        top      == all_stats.rankings.top_students
    IN  [overall        |-> all_stats.overall,
         sem1_overall   |-> semester.sem1_overall,
         sem2_overall   |-> semester.sem2_overall,
         improvement    |-> RatSub(semester.sem2_overall, semester.sem1_overall),
         subject_rows   |-> [i \in 1..Len(SUBJECTS) |->
                                [subject |-> SUBJECTS[i],
                                 sem1    |-> semester.sem1_avg[i],
                                 sem2    |-> semester.sem2_avg[i],
                                 change  |-> semester.improvement[i]]],
         distribution   |-> all_stats.distribution,
         at_risk_total  |-> at_risk.count,
         at_risk_rows   |-> IF at_risk.count > 0
                            THEN [i \in 1..Min2(ReportRows, at_risk.count) |->
                                    [id      |-> at_risk.ids[i],
                                     average |-> at_risk.averages[i],
                                     subject |-> SUBJECTS[(at_risk.weakest_subject_idx[i] % Len(SUBJECTS)) + 1],
                                     score   |-> at_risk.weakest_scores[i]]]
                            ELSE <<>>,
         top_rows       |-> [i \in 1..Len(top.ids) |->
                                [rank |-> i, id |-> top.ids[i], average |-> top.scores[i]]],
         section_rows   |-> all_stats.sections]

(* ------------------------------ datasets ------------------------------- *)

\* a student's row: semester-1 scores x, a, a, a, a and semester-2 scores y, b, b, b, b
Row(a, b, x, y) ==
    [c \in 1..NumCols |-> IF c = 1 THEN x
                          ELSE IF c <= SemCols THEN a
                          ELSE IF c = SemCols + 1 THEN y
                          ELSE b]

\* rows with means 40, 50, 60 (equal rows give tied ranks)
RankRows == {Row(a, a, a, a) : a \in {40, 50, 60}}

\* rows whose mean and semester delta lie below, on and above the thresholds, with
\* the minimum in either semester and sums that are and are not multiples of 5
AnalyzerRows ==
    {Row(a, b, a - dx, b - dy) : a \in {45, 55, 65}, b \in {45, 55, 65}, dx \in {0, 3}, dy \in {0, 3}}

\* rows of scores on both sides of every letter boundary
StatsRows == {Row(a, b, a, b) : a \in {0, 59, 69, 79, 89}, b \in {60, 70, 80, 90, 100}}

SectionRows == {Row(80, 80, 80, 80), Row(90, 90, 90, 90), Row(70, 90, 60, 100)}

MainRows == RankRows \cup {Row(40, 60, 35, 60)}

\* rows with one cell that genfromtxt read as nan, in semester 1 and in semester 2
NanRows == {Row(40, 60, NanCell, 60), Row(50, 50, 50, NanCell)}

\* a row of an empty cell among scores of 80
NanRow80 == Row(80, 80, 80, NanCell)

\* student_data.csv: absent; with a row of fewer than the 13 columns read; with an
\* empty or non-numeric score cell; well-formed
FileKinds == {"missing", "short_row", "bad_cell", "ok"}

SectionLabels == {"A", "B", "C"}

TopNs == 0..MaxTopN

RiskThresholds == {DefaultRiskThreshold, 60}

ImproveThresholds == {DefaultImproveThreshold, 20}

StudentId(i) == 100 + i

(* ------------------------------- state --------------------------------- *)

VARIABLES
    pc,             \* position of main(), or "ready"/"returned"/"raised" around one call
    called,         \* the analysis last called
    student_ids,    \* the dataset, positionally aligned
    sections,
    grades,         \* the rows; a vector (grades_ndim = 1) is kept as its one row
    grades_ndim,    \* grades.ndim: 2 for a matrix, 1 for a vector, 0 before the load
    file,           \* what student_data.csv is
    is_none,        \* load_data returned (None, None, None)
    load_error,     \* what load_data printed
    top_n,          \* arguments of the last call
    threshold,
    overall_stats,  \* results, as main() names them
    semester_stats,
    rankings,
    at_risk,
    section_stats,
    distribution,
    improvements,
    report,
    saved,          \* save_report wrote the file
    exit_code

vars == <<pc, called, student_ids, sections, grades, grades_ndim, file, is_none, load_error,
          top_n, threshold,
          overall_stats, semester_stats, rankings, at_risk, section_stats, distribution,
          improvements, report, saved, exit_code>>

dataset == <<student_ids, sections, grades, grades_ndim, file, is_none, load_error>>

results == <<overall_stats, semester_stats, rankings, at_risk, section_stats, distribution,
             improvements>>

Unset == [unset |-> TRUE]

NoResults ==
    /\ called = "none"
    /\ top_n = 0 - 1
    /\ threshold = 0 - 1
    /\ overall_stats = Unset
    /\ semester_stats = Unset
    /\ rankings = Unset
    /\ at_risk = Unset
    /\ section_stats = Unset
    /\ distribution = Unset
    /\ improvements = Unset
    /\ report = Unset
    /\ saved = FALSE
    /\ exit_code = 0 - 1

\* a loaded dataset of at most maxN students, ready for one call
InitCall(maxN, rows, labels) ==
    /\ pc = "ready"
    /\ \E n \in 0..maxN :
        /\ grades \in [1..n -> rows]
        /\ sections \in [1..n -> labels]
        /\ student_ids = [i \in 1..n |-> StudentId(i)]
    /\ grades_ndim = 2
    /\ file = IF \E i \in 1..Len(grades) : HasNan(grades[i]) THEN "bad_cell" ELSE "ok"
    /\ is_none = FALSE
    /\ load_error = "none"
    /\ NoResults

InitRank == InitCall(MaxRankStudents, RankRows \cup {NanRow80}, {"A"})

InitAnalyzer == InitCall(MaxStudents, AnalyzerRows \cup NanRows, {"A"})

InitStats == InitCall(MaxStudents, StatsRows \cup NanRows, {"A"})

InitSections == InitCall(MaxStudents, SectionRows \cup {NanRow80}, SectionLabels)

\* main() before load_data
InitMain ==
    /\ pc = "start"
    /\ grades = <<>>
    /\ sections = <<>>
    /\ student_ids = <<>>
    /\ grades_ndim = 0
    /\ file \in FileKinds
    /\ is_none = FALSE
    /\ load_error = "none"
    /\ NoResults

(* ------------------------- calls of one analysis ----------------------- *)

Returned(name) == pc' = "returned" /\ called' = name

CallOverall ==
    /\ pc = "ready"
    /\ overall_stats' = calculate_overall_stats(grades)
    /\ called' = "calculate_overall_stats"
    /\ pc' = IF IsRaised(overall_stats') THEN "raised" ELSE "returned"
    /\ UNCHANGED <<dataset, top_n, threshold, semester_stats, rankings, at_risk, section_stats,
                   distribution, improvements, report, saved, exit_code>>

CallSemester ==
    /\ pc = "ready"
    /\ semester_stats' = semester_stats_of(grades, grades_ndim)
    /\ called' = "calculate_semester_stats"
    /\ pc' = IF IsRaised(semester_stats') THEN "raised" ELSE "returned"
    /\ UNCHANGED <<dataset, top_n, threshold, overall_stats, rankings, at_risk, section_stats,
                   distribution, improvements, report, saved, exit_code>>

CallDistribution ==
    /\ pc = "ready"
    /\ distribution' = get_grade_distribution(grades)
    /\ Returned("get_grade_distribution")
    /\ UNCHANGED <<dataset, top_n, threshold, overall_stats, semester_stats, rankings, at_risk,
                   section_stats, improvements, report, saved, exit_code>>

CallRank ==
    /\ pc = "ready"
    /\ \E k \in TopNs, ranked_indices \in RankedIndices(RowMeans10(grades)) :
        /\ rankings' = rank_students(student_ids, grades, k, ranked_indices)
        /\ top_n' = k
    /\ Returned("rank_students")
    /\ UNCHANGED <<dataset, threshold, overall_stats, semester_stats, at_risk, section_stats,
                   distribution, improvements, report, saved, exit_code>>

CallAtRisk ==
    /\ pc = "ready"
    /\ \E t \in RiskThresholds :
        /\ at_risk' = identify_at_risk(student_ids, grades, t)
        /\ threshold' = t
    /\ Returned("identify_at_risk")
    /\ UNCHANGED <<dataset, top_n, overall_stats, semester_stats, rankings, section_stats,
                   distribution, improvements, report, saved, exit_code>>

CallImprovement ==
    /\ pc = "ready"
    /\ \E t \in ImproveThresholds :
        /\ improvements' = track_improvement(student_ids, grades, t)
        /\ threshold' = t
    /\ Returned("track_improvement")
    /\ UNCHANGED <<dataset, top_n, overall_stats, semester_stats, rankings, at_risk,
                   section_stats, distribution, report, saved, exit_code>>

CallSections ==
    /\ pc = "ready"
    /\ section_stats' = analyze_sections(sections, grades)
    /\ Returned("analyze_sections")
    /\ UNCHANGED <<dataset, top_n, threshold, overall_stats, semester_stats, rankings, at_risk,
                   distribution, improvements, report, saved, exit_code>>

(* -------------------------------- main --------------------------------- *)

\* the shape genfromtxt gives n data rows: a matrix for two or more, a vector of
\* the 10 scores for one, an empty vector for none
NdimOf(n) == IF n >= 2 THEN 2 ELSE 1

\* DataLoader.load_data: the three genfromtxt calls succeed on a well-formed file
LoadOk ==
    /\ pc = "start"
    /\ file = "ok"
    /\ \E n \in 0..MaxStudents :
        /\ grades' \in [1..n -> MainRows]
        /\ sections' \in [1..n -> {"A", "B"}]
        /\ student_ids' = [i \in 1..n |-> StudentId(i)]
        /\ grades_ndim' = NdimOf(n)
    /\ is_none' = FALSE
    /\ load_error' = "none"
    /\ pc' = "loaded"
    /\ UNCHANGED <<file, called, top_n, threshold, results, report, saved, exit_code>>

\* load_data on a file with an empty or non-numeric score cell: genfromtxt stores
\* nan for the cell and raises nothing, so the arrays are returned as for LoadOk
LoadNan ==
    /\ pc = "start"
    /\ file = "bad_cell"
    /\ \E n \in 1..MaxStudents :
        /\ grades' \in {g \in [1..n -> MainRows \cup NanRows] : \E i \in 1..n : g[i] \in NanRows}
        /\ sections' \in [1..n -> {"A", "B"}]
        /\ student_ids' = [i \in 1..n |-> StudentId(i)]
        /\ grades_ndim' = NdimOf(n)
    /\ is_none' = FALSE
    /\ load_error' = "none"
    /\ pc' = "loaded"
    /\ UNCHANGED <<file, called, top_n, threshold, results, report, saved, exit_code>>

\* load_data: genfromtxt raises FileNotFoundError (no file) or another exception
\* (a row without the columns usecols names); the handler prints and the function
\* returns None, None, None
LoadFails ==
    /\ pc = "start"
    /\ file \in {"missing", "short_row"}
    /\ load_error' = IF file = "missing" THEN "FileNotFoundError" ELSE "Exception"
    /\ is_none' = TRUE
    /\ pc' = "loaded"
    /\ UNCHANGED <<student_ids, sections, grades, grades_ndim, file, called, top_n, threshold,
                   results, report, saved, exit_code>>

\* `if grades is None`
GradesIsNone(none) == none

\* main(): the check of the loader's result; sys.exit(1) on failure
CheckLoaded ==
    /\ pc = "loaded"
    /\ IF GradesIsNone(is_none)
       THEN pc' = "exited" /\ exit_code' = 1
       ELSE pc' = "overall" /\ UNCHANGED exit_code
    /\ UNCHANGED <<dataset, called, top_n, threshold, results, report, saved>>

\* an uncaught exception ends main() with a traceback and exit status 1
RunOverall ==
    /\ pc = "overall"
    /\ overall_stats' = calculate_overall_stats(grades)
    /\ called' = "calculate_overall_stats"
    /\ IF IsRaised(overall_stats')
       THEN pc' = "crashed" /\ exit_code' = 1
       ELSE pc' = "semester" /\ UNCHANGED exit_code
    /\ UNCHANGED <<dataset, top_n, threshold, semester_stats, rankings, at_risk, section_stats,
                   distribution, improvements, report, saved>>

RunSemester ==
    /\ pc = "semester"
    /\ semester_stats' = semester_stats_of(grades, grades_ndim)
    /\ called' = "calculate_semester_stats"
    /\ IF IsRaised(semester_stats')
       THEN pc' = "crashed" /\ exit_code' = 1
       ELSE pc' = "rank" /\ UNCHANGED exit_code
    /\ UNCHANGED <<dataset, top_n, threshold, overall_stats, rankings, at_risk, section_stats,
                   distribution, improvements, report, saved>>

RunRank ==
    /\ pc = "rank"
    /\ \E ranked_indices \in RankedIndices(RowMeans10(grades)) :
        rankings' = rank_students(student_ids, grades, DefaultTopN, ranked_indices)
    /\ top_n' = DefaultTopN
    /\ called' = "rank_students"
    /\ pc' = "at_risk"
    /\ UNCHANGED <<dataset, threshold, overall_stats, semester_stats, at_risk, section_stats,
                   distribution, improvements, report, saved, exit_code>>

RunAtRisk ==
    /\ pc = "at_risk"
    /\ at_risk' = identify_at_risk(student_ids, grades, DefaultRiskThreshold)
    /\ threshold' = DefaultRiskThreshold
    /\ called' = "identify_at_risk"
    /\ pc' = "sections"
    /\ UNCHANGED <<dataset, top_n, overall_stats, semester_stats, rankings, section_stats,
                   distribution, improvements, report, saved, exit_code>>

RunSections ==
    /\ pc = "sections"
    /\ section_stats' = analyze_sections(sections, grades)
    /\ called' = "analyze_sections"
    /\ pc' = "distribution"
    /\ UNCHANGED <<dataset, top_n, threshold, overall_stats, semester_stats, rankings, at_risk,
                   distribution, improvements, report, saved, exit_code>>

RunDistribution ==
    /\ pc = "distribution"
    /\ distribution' = get_grade_distribution(grades)
    /\ called' = "get_grade_distribution"
    /\ pc' = "improvements"
    /\ UNCHANGED <<dataset, top_n, threshold, overall_stats, semester_stats, rankings, at_risk,
                   section_stats, improvements, report, saved, exit_code>>

RunImprovement ==
    /\ pc = "improvements"
    /\ improvements' = track_improvement(student_ids, grades, DefaultImproveThreshold)
    /\ threshold' = DefaultImproveThreshold
    /\ called' = "track_improvement"
    /\ pc' = "report"
    /\ UNCHANGED <<dataset, top_n, overall_stats, semester_stats, rankings, at_risk,
                   section_stats, distribution, report, saved, exit_code>>

\* all_stats = {...}; report = generate_console_report(all_stats); print(report)
GenerateReport ==
    /\ pc = "report"
    /\ report' = generate_console_report(
                    [overall      |-> overall_stats,
                     semester     |-> semester_stats,
                     rankings     |-> rankings,
                     at_risk      |-> at_risk,
                     sections     |-> section_stats,
                     distribution |-> distribution,
                     improvements |-> improvements])
    /\ called' = "generate_console_report"
    /\ pc' = "save"
    /\ UNCHANGED <<dataset, top_n, threshold, results, saved, exit_code>>

\* ReportGenerator.save_report: the write succeeds, or fails and is only printed
SaveReport ==
    /\ pc = "save"
    /\ \E ok \in BOOLEAN : saved' = ok
    /\ called' = "save_report"
    /\ pc' = "insights"
    /\ UNCHANGED <<dataset, top_n, threshold, results, report, exit_code>>

\* the three "Key Insights" lines; main() returns
Insights ==
    /\ pc = "insights"
    /\ pc' = "done"
    /\ exit_code' = 0
    /\ UNCHANGED <<dataset, called, top_n, threshold, results, report, saved>>

(* --------------------------- specifications ---------------------------- *)

Next ==
    \/ LoadOk
    \/ LoadNan
    \/ LoadFails
    \/ CheckLoaded
    \/ RunOverall
    \/ RunSemester
    \/ RunRank
    \/ RunAtRisk
    \/ RunSections
    \/ RunDistribution
    \/ RunImprovement
    \/ GenerateReport
    \/ SaveReport
    \/ Insights

\* main()
Spec == InitMain /\ [][Next]_vars

\* rank_students on every ranking dataset and top_n
SpecRank == InitRank /\ [][CallRank]_vars

\* identify_at_risk on every analyzer dataset and threshold
SpecAtRisk == InitAnalyzer /\ [][CallAtRisk]_vars

\* track_improvement on every analyzer dataset and threshold
SpecImprovement == InitAnalyzer /\ [][CallImprovement]_vars

NextAnalyzer == CallRank \/ CallAtRisk \/ CallImprovement

\* the three student analyses on the ranking datasets
SpecAnalyzer == InitRank /\ [][NextAnalyzer]_vars

NextStats == CallOverall \/ CallSemester \/ CallDistribution

\* the three statistics on the boundary-score datasets
SpecStats == InitStats /\ [][NextStats]_vars

\* analyze_sections on every labelled dataset
SpecSections == InitSections /\ [][CallSections]_vars

(* ------------------------------ properties ----------------------------- *)

Done(name) == pc = "returned" /\ called = name

N == Len(grades)

Elems(s) == {s[k] : k \in 1..Len(s)}

\* the row of student s holds a nan
NanStudent(s) == HasNan(grades[s])

\* x >= y of two means (false when either is nan)
MeanGe(x, y) == x # NanCell /\ y # NanCell /\ x >= y

\* the last k entries of s, by counting from the end
LastK(s, k) == [j \in 1..Min2(k, Len(s)) |-> s[Len(s) - Min2(k, Len(s)) + j]]

\* C1: rank_students returns top_students of length min(top_n, N), and when
\* 2 * top_n <= N every top score is >= every bottom score.
C1_TopLengthAndOrder ==
    Done("rank_students") =>
        LET top    == rankings.top_students
            bottom == rankings.bottom_students
        IN  /\ Len(top.ids) = Min2(top_n, N)
            /\ Len(top.scores) = Min2(top_n, N)
            /\ 2 * top_n <= N =>
                 \A i \in 1..Len(top.scores), j \in 1..Len(bottom.scores) :
                    MeanGe(top.scores[i], bottom.scores[j])

\* C2: bottom_students is exactly the last top_n entries of the descending order
\* (min(top_n, N) entries, ids and scores positionally matching), for every
\* top_n >= 0 including 0 and values above N.
C2_BottomIsLastTopN ==
    Done("rank_students") =>
        LET bottom == rankings.bottom_students
        IN  /\ Len(bottom.ids) = Min2(top_n, N)
            /\ \E r \in RankedIndices(rankings.averages) :
                  /\ bottom.ids = Take(student_ids, LastK(r, top_n))
                  /\ bottom.scores = Take(rankings.averages, LastK(r, top_n))

\* the letter a score belongs to, by the edges 90, 80, 70, 60 (an edge in the higher one)
\* (nan is in none: every comparison with it is false)
LetterOf(g) ==
    IF g = NanCell THEN "none"
    ELSE IF g >= 90 THEN "A" ELSE IF g >= 80 THEN "B" ELSE IF g >= 70 THEN "C"
    ELSE IF g >= 60 THEN "D" ELSE "F"

Cells == (1..N) \X (1..NumCols)

\* C3: get_grade_distribution counts each of the N*10 scores in exactly one of
\* A (>= 90), B [80, 90), C [70, 80), D [60, 70), F (< 60), an edge score in the
\* higher bucket, so the five counts sum to N*10.
C3_DistributionPartition ==
    Done("get_grade_distribution") =>
        /\ \A l \in Letters :
              distribution[l].count = Cardinality({c \in Cells : LetterOf(grades[c[1]][c[2]]) = l})
        /\ distribution["A"].count + distribution["B"].count + distribution["C"].count
             + distribution["D"].count + distribution["F"].count = N * NumCols

\* student s has a 10-column mean strictly below t
BelowThreshold(s, t) == ~NanStudent(s) /\ SumSeq(grades[s]) < NumCols * t

\* C4: identify_at_risk selects exactly the students whose mean is strictly below
\* the threshold; when there is none, count is 0 and the four arrays are empty.
C4_AtRiskSelection ==
    Done("identify_at_risk") =>
        /\ \A s \in 1..N : student_ids[s] \in Elems(at_risk.ids) <=> BelowThreshold(s, threshold)
        /\ at_risk.count = Cardinality({s \in 1..N : BelowThreshold(s, threshold)})
        /\ (\A s \in 1..N : ~BelowThreshold(s, threshold)) =>
              /\ at_risk.count = 0
              /\ at_risk.ids = <<>>
              /\ at_risk.averages = <<>>
              /\ at_risk.weakest_subject_idx = <<>>
              /\ at_risk.weakest_scores = <<>>

\* a student whose mean equals the threshold, and nobody below it: nothing selected
C4_Witness ==
    /\ Done("identify_at_risk")
    /\ N = 2
    /\ \E s \in 1..N : ~NanStudent(s) /\ SumSeq(grades[s]) = NumCols * threshold
    /\ at_risk.count = 0
    /\ at_risk.ids = <<>>

\* C5: position i of the at-risk arrays describes one student: weakest_scores[i]
\* is the minimum of the student's ten grades, weakest_subject_idx[i] is a column
\* 0..9 holding it, ids[i] and averages[i] are the student's; all have length count.
C5_WeakestAligned ==
    Done("identify_at_risk") =>
        /\ Len(at_risk.ids) = at_risk.count
        /\ Len(at_risk.averages) = at_risk.count
        /\ Len(at_risk.weakest_subject_idx) = at_risk.count
        /\ Len(at_risk.weakest_scores) = at_risk.count
        /\ \A i \in 1..at_risk.count :
              \E s \in 1..N :
                 /\ student_ids[s] = at_risk.ids[i]
                 /\ ~NanStudent(s)
                 /\ at_risk.averages[i] = SumSeq(grades[s])
                 /\ \A c \in 1..NumCols : at_risk.weakest_scores[i] <= grades[s][c]
                 /\ at_risk.weakest_subject_idx[i] \in 0..(NumCols - 1)
                 /\ grades[s][at_risk.weakest_subject_idx[i] + 1] = at_risk.weakest_scores[i]

\* two at-risk students with different weakest columns and scores, and one
\* student who is not at risk before them
C5_Witness ==
    /\ Done("identify_at_risk")
    /\ N = 2
    /\ at_risk.count = 2
    /\ at_risk.weakest_subject_idx = <<5, 0>>
    /\ at_risk.weakest_scores[1] # at_risk.weakest_scores[2]

\* d > t, d < t, d = t for a delta d = (n + e*2^-55)/5 and an integer t
\* (none of them holds of a nan delta)
DeltaAbove(d, t) == ~IsFlNaN(d) /\ (d.n > 5 * t \/ (d.n = 5 * t /\ d.e > 0))

DeltaBelow(d, t) == ~IsFlNaN(d) /\ (d.n < 5 * t \/ (d.n = 5 * t /\ d.e < 0))

DeltaIs(d, t) == ~IsFlNaN(d) /\ d.n = 5 * t /\ d.e = 0

\* C6: delta is mean(columns 5-9) - mean(columns 0-4); a student is in improved
\* iff delta > threshold and in declined iff delta < -threshold, both strict, so a
\* delta of exactly 0, +threshold or -threshold is in neither; all_deltas has length N.
C6_ImprovementStrict ==
    Done("track_improvement") =>
        /\ Len(improvements.all_deltas) = N
        /\ \A s \in 1..N :
              LET d  == improvements.all_deltas[s]
                  s1 == SumSeq(SubSeq(grades[s], 1, SemCols))
                  s2 == SumSeq(SubSeq(grades[s], SemCols + 1, NumCols))
              IN  /\ NanStudent(s) <=> IsFlNaN(d)
                  /\ ~NanStudent(s) =>
                        /\ d.n = s2 - s1
                        /\ (s1 % SemCols = 0 /\ s2 % SemCols = 0) => d.e = 0
                        /\ s1 = s2 => DeltaIs(d, 0)
                  /\ student_ids[s] \in Elems(improvements.improved.ids) <=> DeltaAbove(d, threshold)
                  /\ student_ids[s] \in Elems(improvements.declined.ids) <=> DeltaBelow(d, 0 - threshold)
                  /\ (DeltaIs(d, 0) \/ DeltaIs(d, threshold) \/ DeltaIs(d, 0 - threshold)) =>
                        /\ student_ids[s] \notin Elems(improvements.improved.ids)
                        /\ student_ids[s] \notin Elems(improvements.declined.ids)
        /\ improvements.improved.count = Len(improvements.improved.ids)
        /\ improvements.declined.count = Len(improvements.declined.ids)

\* one student exactly at +threshold and one exactly at -threshold: neither listed
C6_Witness ==
    /\ Done("track_improvement")
    /\ N = 2
    /\ DeltaIs(improvements.all_deltas[1], threshold)
    /\ DeltaIs(improvements.all_deltas[2], 0 - threshold)
    /\ improvements.improved.count = 0
    /\ improvements.declined.count = 0

\* the scores of the students of one section
SectionCells(sec) == {c \in Cells : sections[c[1]] = sec}

SectionSum(sec) ==
    SumSeq([s \in 1..N |-> IF sections[s] = sec THEN SumSeq(grades[s]) ELSE 0])

\* v is the k-th smallest of the scores at the cells cs
IsOrderStat(cs, v, k) ==
    /\ Cardinality({c \in cs : grades[c[1]][c[2]] < v}) < k
    /\ Cardinality({c \in cs : grades[c[1]][c[2]] <= v}) >= k

\* C7: analyze_sections has one entry per distinct label; count is the number of
\* rows with that label, avg/min/max/median are over all 10 columns of those rows
\* (nan when one of these scores is nan),
\* the counts sum to N, no count is 0, and an empty dataset gives an empty mapping.
C7_SectionsGrouping ==
    Done("analyze_sections") =>
        /\ DOMAIN section_stats = Elems(sections)
        /\ N = 0 => DOMAIN section_stats = {}
        /\ \A sec \in DOMAIN section_stats :
              LET st == section_stats[sec]
                  cs == SectionCells(sec)
                  n  == Cardinality(cs)
              IN  /\ st.count = Cardinality({s \in 1..N : sections[s] = sec})
                  /\ st.count > 0
                  /\ n = NumCols * st.count
                  /\ IF \E c \in cs : grades[c[1]][c[2]] = NanCell
                     THEN IsNaN(st.avg) /\ IsNaN(st.min) /\ IsNaN(st.max) /\ IsNaN(st.median)
                     ELSE /\ RatEq(st.avg, Rat(SectionSum(sec), n))
                          /\ st.min.den = 1 /\ st.max.den = 1
                          /\ \A c \in cs : st.min.num <= grades[c[1]][c[2]] /\ grades[c[1]][c[2]] <= st.max.num
                          /\ \E c \in cs : st.min.num = grades[c[1]][c[2]]
                          /\ \E c \in cs : st.max.num = grades[c[1]][c[2]]
                          /\ \E lo, hi \in {grades[c[1]][c[2]] : c \in cs} :
                                /\ IsOrderStat(cs, lo, n \div 2)
                                /\ IsOrderStat(cs, hi, n \div 2 + 1)
                                /\ RatEq(st.median, Rat(lo + hi, 2))
        /\ Cardinality({s \in 1..N : sections[s] \in DOMAIN section_stats}) = N

\* two students of section "A" with all-90 and all-80 scores: avg 85, count 2
C7_Witness ==
    /\ Done("analyze_sections")
    /\ N = 2
    /\ sections = <<"A", "A">>
    /\ Elems(grades[1]) = {90}
    /\ Elems(grades[2]) = {80}
    /\ section_stats["A"].count = 2
    /\ RatEq(section_stats["A"].avg, Rat(85, 1))
    /\ RatEq(section_stats["A"].median, Rat(85, 1))

StatisticsCalls ==
    {"calculate_overall_stats", "calculate_semester_stats", "get_grade_distribution"}

\* C8: on zero students every statistic that needs a value (overall, semester,
\* the distribution's percentages) fails with an error; none returns nan.
C8_EmptyStatsFail ==
    (N = 0 /\ called \in StatisticsCalls) => pc = "raised"

\* C9: on zero students rank_students, identify_at_risk and track_improvement do
\* not raise and return empty results: top and bottom empty, at-risk count 0 with
\* empty arrays, improved and declined count 0 and empty, averages and all_deltas
\* of length 0.
C9_EmptyAnalyses ==
    (N = 0 /\ pc # "ready") =>
        /\ pc = "returned"
        /\ called = "rank_students" =>
              /\ rankings.averages = <<>>
              /\ rankings.top_students = [ids |-> <<>>, scores |-> <<>>]
              /\ rankings.bottom_students = [ids |-> <<>>, scores |-> <<>>]
        /\ called = "identify_at_risk" =>
              /\ at_risk.count = 0
              /\ at_risk.ids = <<>>
              /\ at_risk.averages = <<>>
              /\ at_risk.weakest_subject_idx = <<>>
              /\ at_risk.weakest_scores = <<>>
        /\ called = "track_improvement" =>
              /\ improvements.improved = [count |-> 0, ids |-> <<>>, delta |-> <<>>]
              /\ improvements.declined = [count |-> 0, ids |-> <<>>, delta |-> <<>>]
              /\ improvements.all_deltas = <<>>

\* identify_at_risk has returned on zero students
C9_Witness == N = 0 /\ Done("identify_at_risk") /\ at_risk.count = 0

\* C10: after a failed load (file missing, unparsable, or a malformed row) no
\* analysis, report or save happens and main ends in failure; the analyses only
\* ever run after a successful load of a well-formed file.
C10_LoadFailureStops ==
    file # "ok" =>
        /\ called = "none"
        /\ results = <<Unset, Unset, Unset, Unset, Unset, Unset, Unset>>
        /\ report = Unset
        /\ saved = FALSE
        /\ pc \in {"start", "loaded", "exited"}
        /\ pc = "exited" => exit_code = 1

=============================================================================
